---------------------------- MODULE Spec2Model ----------------------------
(***************************************************************************)
(* Safety360 backend (src/main.py): the SQLite audit log (AuditLogger and  *)
(* the route handlers that write to it) and the PBKDF2 + Fernet envelope   *)
(* encryption (SimpleEncryptionManager and the /api/dsgvo routes).         *)
(*                                                                         *)
(* Spec        the audit log under concurrent request handlers             *)
(* SpecRoutes  the six routes that write to the audit log                  *)
(* SpecCrypto  one SimpleEncryptionManager instance and its two routes     *)
(* SpecRestart the encryption routes over restarts of the process          *)
(* SpecPdf     the rule-based document analysis behind /api/pdf/analyze    *)
(***************************************************************************)
EXTENDS Integers, Sequences, FiniteSets, TLC

VARIABLES
    audit_logs,     \* committed rows of table audit_logs (id is the primary key)
    db_lock,        \* 0, or the worker whose connection holds SQLite's write lock
    clock,          \* the wall clock, in whole seconds
    pc,             \* per worker: "idle", "execute" (before INSERT), "commit" (before COMMIT)
    call,           \* per worker: the local variables of the running AuditLogger.log
    resp,           \* the response sent by the step just taken (NoResp: none)
    done,           \* history: the AuditLogger.log calls that returned
    nreq,           \* number of requests started so far
    smartsheet_on,  \* SMARTSHEET_TOKEN and SMARTSHEET_SHEET_ID are both set
    encryption,     \* the module's SimpleEncryptionManager instance
    urandom_calls,  \* number of os.urandom(16) values handed out so far
    blobs,          \* history: data, salt and result of the encrypt calls, in order
    ENCRYPTION_MASTER_KEY,  \* os.getenv("ENCRYPTION_KEY", ""), the deployment's setting
    run,            \* the process runs started so far (1: no restart yet)
    stdout,         \* the lines the running process has printed
    analyses        \* history: the analyze_pdf_safety calls and their results

cryptoVars == <<encryption, urandom_calls, blobs, ENCRYPTION_MASTER_KEY, run, stdout>>

auditVars == <<audit_logs, db_lock, clock, pc, call, resp, done, nreq, smartsheet_on>>

auditExceptResp == <<audit_logs, db_lock, clock, pc, call, done, nreq, smartsheet_on>>

pdfVars == <<analyses>>

\* what the audit log and its routes leave alone
otherVars == <<cryptoVars, pdfVars>>

-----------------------------------------------------------------------------
(* Bounds of the model *)

\* requests started in one run
MaxRequests == 3
\* the wall clock runs from ClockStart up to MaxClock seconds
MaxClock == 60
\* 00:59, so that the clock crosses a minute boundary within the bound
ClockStart == 59

\* request handler threads that run concurrently (0 is no worker)
Workers == {1, 2}
\* values uuid.uuid4() can return; two calls may return the same one
UUIDS == {"id-a", "id-b"}
\* object ids a client can send
ObjectIds == {"o1", "o2"}
\* the limit query parameter of /admin/audit-logs (an unchecked int)
Limits == {-1, 0, 1, 2}

None == "None"
NoCall == [handler |-> "none"]
NoResp == [handler |-> "none", status |-> 0]

-----------------------------------------------------------------------------
(* Utilities *)

\* now_utc_iso: the clock, microseconds dropped, as ISO text.  The text is
\* modelled by the digits of its minute and second fields, MM SS, most
\* significant first (the fields in front of them are formatted the same way).
now_utc_iso(t) ==
    <<(t \div 60) \div 10, (t \div 60) % 10, (t % 60) \div 10, (t % 60) % 10>>

\* The instant an ISO text written by now_utc_iso denotes, in seconds.
TimeOf(ts) == (ts[1] * 10 + ts[2]) * 60 + ts[3] * 10 + ts[4]

\* SQLite compares TEXT columns byte by byte (BINARY collation).
RECURSIVE TextLess(_, _)
TextLess(a, b) ==
    IF b = <<>> THEN FALSE
    ELSE IF a = <<>> THEN TRUE
    ELSE IF a[1] # b[1] THEN a[1] < b[1]
    ELSE TextLess(Tail(a), Tail(b))

TextLeq(a, b) == a = b \/ TextLess(a, b)

\* json.dumps(details or {}) and json.loads(text or "{}") on the details column:
\* the stored text is a wrapper around the payload, not the payload itself.
EmptyDict == "{}"
details_dumps(details) == <<"json", IF details = None THEN EmptyDict ELSE details>>
details_loads(text) == IF text = None THEN EmptyDict ELSE text[2]

\* All enumerations of the finite set S as a sequence without repetition.
RECURSIVE Perms(_)
Perms(S) ==
    IF S = {} THEN {<<>>}
    ELSE UNION {{<<x>> \o s : s \in Perms(S \ {x})} : x \in S}

\* ORDER BY timestamp: every order of the rows that is ascending in the text
\* of the timestamp column (rows with equal timestamps come in any order).
OrderByTimestamp(rows) ==
    {s \in Perms(rows) :
        \A i \in 1..Len(s), j \in 1..Len(s) :
            i < j => TextLeq(s[i].timestamp, s[j].timestamp)}

OrderByTimestampDesc(rows) ==
    {s \in Perms(rows) :
        \A i \in 1..Len(s), j \in 1..Len(s) :
            i < j => TextLeq(s[j].timestamp, s[i].timestamp)}

Ids(rows) == {r.id : r \in rows}

\* The row-to-dict loop of get_trail and get_last.
RowDict(row) ==
    [id |-> row.id, timestamp |-> row.timestamp, user_id |-> row.user_id,
     action |-> row.action, object_type |-> row.object_type,
     object_id |-> row.object_id, details |-> details_loads(row.details)]

RowDicts(s) == [i \in 1..Len(s) |-> RowDict(s[i])]


-----------------------------------------------------------------------------
(* AuditLogger (SQLite).  Each call opens a connection of its own; the      *)
(* INSERT takes the database's write lock and COMMIT publishes the row and  *)
(* releases it.  A call that raises drops its connection, which rolls the   *)
(* open transaction back.                                                   *)

\* The tuple bound to the INSERT's seven placeholders: the call's own locals.
InsertedRowShared(p) ==
    LET q == IF \E w \in Workers : w # p /\ pc[w] # "idle"
             THEN CHOOSE w \in Workers : w # p /\ pc[w] # "idle"
             ELSE p
    IN  [id |-> call[p].log_id,
         timestamp |-> call[q].timestamp,
         user_id |-> call[q].user_id,
         action |-> call[p].action,
         object_type |-> call[p].object_type,
         object_id |-> call[q].object_id,
         details |-> details_dumps(call[p].details)]

InsertedRow(p) ==
    [id |-> call[p].log_id,
     timestamp |-> call[p].timestamp,
     user_id |-> call[p].user_id,
     action |-> call[p].action,
     object_type |-> call[p].object_type,
     object_id |-> call[p].object_id,
     details |-> details_dumps(call[p].details)]

\* INSERT INTO audit_logs ... at COMMIT: one more row in the table.
InsertOrReplace(rows, row) ==
    {r \in rows : r.object_id # row.object_id} \cup {row}

Insert(rows, row) == rows \cup {row}

\* What the history keeps of a call that returned: the id it returned, the
\* timestamp it took and the arguments its caller passed.
DoneRecord(p) ==
    [handler |-> call[p].handler,
     log_id |-> call[p].log_id,
     timestamp |-> call[p].timestamp,
     user_id |-> call[p].user_id,
     action |-> call[p].action,
     object_type |-> call[p].object_type,
     object_id |-> call[p].object_id,
     details |-> call[p].details,
     prior |-> call[p].prior]

\* The handler's return value, or the error FastAPI answers with.
Response(p, status) ==
    [handler |-> call[p].handler,
     status |-> status,
     object_id |-> call[p].object_id,
     log_id |-> IF status = 200 /\ call[p].handler \in
                      {"api_dsgvo_log_access", "api_dsgvo_log_modification"}
                THEN call[p].log_id ELSE None]

\* AuditLogger.log, entry: log_id = str(uuid.uuid4()); timestamp =
\* now_utc_iso(); conn = sqlite3.connect(...).  prior is history: the ids
\* committed when the call started.
log(p, handler, user_id, action, object_type, object_id, details) ==
    /\ pc[p] = "idle"
    /\ nreq < MaxRequests
    /\ \E u \in UUIDS :
        call' = [call EXCEPT ![p] =
                    [handler |-> handler, user_id |-> user_id, action |-> action,
                     object_type |-> object_type, object_id |-> object_id,
                     details |-> details, log_id |-> u,
                     timestamp |-> now_utc_iso(clock),
                     prior |-> Ids(audit_logs)]]
    /\ pc' = [pc EXCEPT ![p] = "execute"]
    /\ nreq' = nreq + 1
    /\ resp' = NoResp
    /\ UNCHANGED <<audit_logs, db_lock, clock, done, smartsheet_on>>

\* The call raises (sqlite3.OperationalError or IntegrityError): the handler
\* does not catch it, the request ends with status 500, the connection is
\* dropped and the transaction, if any, rolled back.
Raise(p) ==
    /\ pc' = [pc EXCEPT ![p] = "idle"]
    /\ call' = [call EXCEPT ![p] = NoCall]
    /\ resp' = Response(p, 500)
    /\ db_lock' = IF db_lock = p THEN 0 ELSE db_lock
    /\ UNCHANGED <<audit_logs, clock, done, nreq, smartsheet_on>>

\* c.execute(INSERT ...): takes the write lock and checks PRIMARY KEY.
log_execute(p) ==
    /\ pc[p] = "execute"
    /\ db_lock = 0
    /\ call[p].log_id \notin Ids(audit_logs)
    /\ db_lock' = p
    /\ pc' = [pc EXCEPT ![p] = "commit"]
    /\ resp' = NoResp
    /\ UNCHANGED <<audit_logs, clock, call, done, nreq, smartsheet_on>>

\* c.execute raises "database is locked": another connection holds the lock
\* for longer than the busy timeout.
log_execute_locked(p) ==
    /\ pc[p] = "execute"
    /\ db_lock \notin {0, p}
    /\ Raise(p)

\* c.execute raises IntegrityError: the id is already a primary key.
log_execute_duplicate(p) ==
    /\ pc[p] = "execute"
    /\ db_lock = 0
    /\ call[p].log_id \in Ids(audit_logs)
    /\ Raise(p)

\* conn.commit(); conn.close(); return log_id
log_commit(p) ==
    /\ pc[p] = "commit"
    /\ db_lock = p
    /\ audit_logs' = Insert(audit_logs, InsertedRow(p))
    /\ db_lock' = 0
    /\ pc' = [pc EXCEPT ![p] = "idle"]
    /\ call' = [call EXCEPT ![p] = NoCall]
    /\ resp' = Response(p, 200)
    /\ done' = done \cup {DoneRecord(p)}
    /\ UNCHANGED <<clock, nreq, smartsheet_on>>

\* conn.commit() raises (disk full, I/O error, busy): nothing is stored.
log_commit_fail_partial(p) ==
    /\ pc[p] = "commit"
    /\ db_lock = p
    /\ audit_logs' = Insert(audit_logs, InsertedRow(p))
    /\ pc' = [pc EXCEPT ![p] = "idle"]
    /\ call' = [call EXCEPT ![p] = NoCall]
    /\ resp' = Response(p, 500)
    /\ db_lock' = 0
    /\ UNCHANGED <<clock, done, nreq, smartsheet_on>>

log_commit_fail(p) ==
    /\ pc[p] = "commit"
    /\ db_lock = p
    /\ Raise(p)

\* SELECT ... WHERE object_id = ? ORDER BY timestamp, then the row loop.
get_trail_desc(rows, object_id) ==
    {RowDicts(s) : s \in OrderByTimestampDesc({r \in rows : r.object_id = object_id})}

get_trail(rows, object_id) ==
    {RowDicts(s) : s \in OrderByTimestamp({r \in rows : r.object_id = object_id})}

\* LIMIT ?: SQLite puts no upper bound on the rows when the value is negative.
Limit(s, limit) ==
    IF limit < 0 \/ limit >= Len(s) THEN s ELSE SubSeq(s, 1, limit)

\* SELECT ... ORDER BY timestamp DESC LIMIT ?, then the row loop.
get_last(rows, limit) ==
    {RowDicts(Limit(s, limit)) : s \in OrderByTimestampDesc(rows)}


-----------------------------------------------------------------------------
(* Route handlers.  A handler that writes to the audit log starts the one   *)
(* AuditLogger.log call it makes; log_commit or a raise ends the request.   *)

\* user ids a client can send to the DSGVO routes
UserIds == {"u1"}

Audited ==
    {"api_smartsheet_create_row", "api_smartsheet_update_row", "api_ai_optimize",
     "api_compliance_check", "api_dsgvo_log_access", "api_dsgvo_log_modification"}

\* The action each audited handler passes to AuditLogger.log.
ActionOf(handler) ==
    CASE handler = "api_smartsheet_create_row" -> "smartsheet_create_row"
      [] handler = "api_smartsheet_update_row" -> "smartsheet_update_row"
      [] handler = "api_ai_optimize" -> "ai_optimize"
      [] handler = "api_compliance_check" -> "compliance_check"
      [] handler = "api_dsgvo_log_access" -> "access"
      [] handler = "api_dsgvo_log_modification" -> "modification"

\* POST /api/smartsheet/create-row
api_smartsheet_create_row_always_logs(p) ==
    \E row_id \in UUIDS :
        log(p, "api_smartsheet_create_row", "system", "smartsheet_create_row",
            "smartsheet_row", row_id, "sheet_id+data")

api_smartsheet_create_row(p) ==
    \/ /\ ~smartsheet_on
       /\ pc[p] = "idle"
       /\ nreq < MaxRequests
       /\ nreq' = nreq + 1
       /\ resp' = [handler |-> "api_smartsheet_create_row", status |-> 503,
                   object_id |-> None, log_id |-> None]
       /\ UNCHANGED <<audit_logs, db_lock, clock, pc, call, done, smartsheet_on>>
    \/ /\ smartsheet_on
       /\ \E row_id \in UUIDS :
            log(p, "api_smartsheet_create_row", "system", "smartsheet_create_row",
                "smartsheet_row", row_id, "sheet_id+data")

\* POST /api/smartsheet/update-row
api_smartsheet_update_row(p) ==
    \E row_id \in ObjectIds :
        log(p, "api_smartsheet_update_row", "system", "smartsheet_update_row",
            "smartsheet_row", row_id, "data")

\* POST /api/ai/optimize
api_ai_optimize(p) ==
    \E task_id \in UUIDS :
        log(p, "api_ai_optimize", "system", "ai_optimize", "ai_task", task_id,
            "objective+context")

\* POST /api/compliance/check
api_compliance_check(p) ==
    \E company_id \in ObjectIds :
        log(p, "api_compliance_check", "system", "compliance_check", "company",
            company_id, "standards")

\* POST /api/dsgvo/log-access
api_dsgvo_log_access(p) ==
    \E user_id \in UserIds, object_id \in ObjectIds :
        log(p, "api_dsgvo_log_access", user_id, "access", "employee", object_id,
            "legal_basis+gdpr_article")

\* POST /api/dsgvo/log-modification
api_dsgvo_log_modification(p) ==
    \E user_id \in UserIds, object_id \in ObjectIds :
        log(p, "api_dsgvo_log_modification", user_id, "modification", "employee",
            object_id, "legal_basis+gdpr_article+changes")

\* GET /api/dsgvo/audit-trail/{object_id}
api_dsgvo_audit_trail(p) ==
    /\ pc[p] = "idle"
    /\ nreq < MaxRequests
    /\ nreq' = nreq + 1
    /\ \E object_id \in ObjectIds :
         \E trail \in get_trail(audit_logs, object_id) :
            resp' = [handler |-> "api_dsgvo_audit_trail", status |-> 200,
                     object_id |-> object_id, trail |-> trail]
    /\ UNCHANGED <<audit_logs, db_lock, clock, pc, call, done, smartsheet_on>>

\* GET /admin/audit-logs?limit=..., behind require_admin (ADMIN_BACKDOOR_KEY
\* has a non-empty default, so require_admin answers 401 or lets through).
admin_audit_logs(p) ==
    /\ pc[p] = "idle"
    /\ nreq < MaxRequests
    /\ nreq' = nreq + 1
    /\ \/ resp' = [handler |-> "admin_audit_logs", status |-> 401]
       \/ \E limit \in Limits :
            \E logs \in get_last(audit_logs, limit) :
               resp' = [handler |-> "admin_audit_logs", status |-> 200,
                        limit |-> limit, logs |-> logs]
    /\ UNCHANGED <<audit_logs, db_lock, clock, pc, call, done, smartsheet_on>>

\* A second of wall-clock time passes.
Tick ==
    /\ clock < MaxClock
    /\ clock' = clock + 1
    /\ resp' = NoResp
    /\ UNCHANGED <<audit_logs, db_lock, pc, call, done, nreq, smartsheet_on>>

\* The system clock is set back (an NTP step, an operator, a restored VM):
\* datetime.utcnow() reads the system clock, which is not monotonic.
ClockStepBack ==
    /\ clock > ClockStart
    /\ clock' \in ClockStart..(clock - 1)
    /\ resp' = NoResp
    /\ UNCHANGED <<audit_logs, db_lock, pc, call, done, nreq, smartsheet_on>>

-----------------------------------------------------------------------------
(* Bytes and text.  bytes and str values are sequences of integers: bytes   *)
(* of 0..255, str of Unicode code points.                                   *)

\* The sum of s[lo..hi], by halves.
RECURSIVE SumRange(_, _, _)
SumRange(s, lo, hi) ==
    IF lo > hi THEN 0
    ELSE IF lo = hi THEN s[lo]
    ELSE LET mid == (lo + hi) \div 2
         IN  SumRange(s, lo, mid) + SumRange(s, mid + 1, hi)

SumSeq(s) == SumRange(s, 1, Len(s))

\* Python's s[a:b] for 0 <= a, with b counted from the front (b >= 0) or
\* from the end (b < 0); a slice that reaches past the end is cut short.
Slice(s, a, b) ==
    LET hi == IF b < 0 THEN Len(s) + b ELSE IF b > Len(s) THEN Len(s) ELSE b
    IN  IF a >= hi THEN <<>> ELSE SubSeq(s, a + 1, hi)

\* Python's s[-n:]
Last(s, n) == IF n >= Len(s) THEN s ELSE SubSeq(s, Len(s) - n + 1, Len(s))

Ok(v) == [ok |-> TRUE, v |-> v]
Err(kind) == [ok |-> FALSE, v |-> kind]

\* str.encode("utf-8"), for code points below U+0800.
RECURSIVE utf8_encode(_)
utf8_encode(text) ==
    IF text = <<>> THEN <<>>
    ELSE (IF text[1] < 128 THEN <<text[1]>>
          ELSE <<192 + (text[1] \div 64), 128 + (text[1] % 64)>>)
         \o utf8_encode(Tail(text))

\* bytes.decode("utf-8"): UnicodeDecodeError on a byte that starts no
\* sequence, a sequence cut short, or an overlong form.
RECURSIVE utf8_decode(_)
utf8_decode(b) ==
    IF b = <<>> THEN Ok(<<>>)
    ELSE IF b[1] < 128 THEN
        LET rest == utf8_decode(Tail(b))
        IN  IF rest.ok THEN Ok(<<b[1]>> \o rest.v) ELSE rest
    ELSE IF b[1] >= 194 /\ b[1] < 224 /\ Len(b) >= 2 /\ b[2] >= 128 /\ b[2] < 192 THEN
        LET rest == utf8_decode(Tail(Tail(b)))
        IN  IF rest.ok THEN Ok(<<(b[1] - 192) * 64 + (b[2] - 128)>> \o rest.v) ELSE rest
    ELSE Err("UnicodeDecodeError")

\* bytes.hex(): two lowercase hex digits for each byte.
HexDigit(n) == IF n < 10 THEN 48 + n ELSE 87 + n

bytes_hex(b) ==
    [i \in 1..(2 * Len(b)) |->
        HexDigit(IF i % 2 = 1 THEN b[(i + 1) \div 2] \div 16 ELSE b[i \div 2] % 16)]

\* The value of a hex digit of either case; 16 for any other character.
HexValue(c) ==
    IF c >= 48 /\ c <= 57 THEN c - 48
    ELSE IF c >= 97 /\ c <= 102 THEN c - 87
    ELSE IF c >= 65 /\ c <= 70 THEN c - 55
    ELSE 16

\* bytes.fromhex(text), for a text without whitespace: ValueError on a
\* character that is no hex digit and on an odd number of digits.
bytes_fromhex(text) ==
    IF Len(text) % 2 = 1 \/ \E i \in 1..Len(text) : HexValue(text[i]) = 16
    THEN Err("ValueError")
    ELSE Ok([i \in 1..(Len(text) \div 2) |->
                16 * HexValue(text[2 * i - 1]) + HexValue(text[2 * i])])

\* The URL-safe base64 alphabet.
B64Char(n) ==
    IF n < 26 THEN 65 + n
    ELSE IF n < 52 THEN 71 + n
    ELSE IF n < 62 THEN n - 4
    ELSE IF n = 62 THEN 45 ELSE 95

\* base64.urlsafe_b64encode
urlsafe_b64encode(b) ==
    LET At(i) == IF i <= Len(b) THEN b[i] ELSE 0
        Pow64(r) == IF r = 0 THEN 262144 ELSE IF r = 1 THEN 4096 ELSE IF r = 2 THEN 64 ELSE 1
    IN  [k \in 1..(4 * ((Len(b) + 2) \div 3)) |->
            LET q == (k - 1) \div 4
                r == (k - 1) % 4
                v == At(3 * q + 1) * 65536 + At(3 * q + 2) * 256 + At(3 * q + 3)
            IN  IF r >= 2 /\ 3 * q + r > Len(b) THEN 61
                ELSE B64Char((v \div Pow64(r)) % 64)]

\* The value of a base64 character as urlsafe_b64decode reads it: it maps
\* "-" and "_" to "+" and "/" and decodes the standard alphabet, so both
\* spellings of 62 and 63 are accepted; 64 for any other character.
B64Value(c) ==
    IF c >= 65 /\ c <= 90 THEN c - 65
    ELSE IF c >= 97 /\ c <= 122 THEN c - 71
    ELSE IF c >= 48 /\ c <= 57 THEN c + 4
    ELSE IF c = 45 \/ c = 43 THEN 62
    ELSE IF c = 95 \/ c = 47 THEN 63
    ELSE 64

\* One round of the character loop of binascii.a2b_base64 (strict_mode off)
\* on character c.  quad is the position in the group of four characters,
\* pads the "=" seen in a row, acc the 6-bit values read, done whether a
\* complete run of "=" has ended the reading.
a2b_step(st, c) ==
    IF c = 61 THEN
        IF st.quad >= 2 /\ st.quad + st.pads + 1 >= 4 THEN [st EXCEPT !.done = TRUE]
        ELSE IF st.quad >= 2 THEN [st EXCEPT !.pads = @ + 1]
        ELSE st
    ELSE IF B64Value(c) = 64 THEN st
    ELSE [quad |-> (st.quad + 1) % 4, pads |-> 0,
          acc |-> Append(st.acc, B64Value(c)), done |-> FALSE]

\* The loop over text[lo..hi], by halves: characters outside the alphabet
\* are skipped, what follows a complete run of "=" is not read.
RECURSIVE a2b_scan(_, _, _, _)
a2b_scan(text, lo, hi, st) ==
    IF st.done \/ lo > hi THEN st
    ELSE IF lo = hi THEN a2b_step(st, text[lo])
    ELSE LET mid == (lo + hi) \div 2
         IN  a2b_scan(text, mid + 1, hi, a2b_scan(text, lo, mid, st))

\* base64.urlsafe_b64decode: every 8 bits of the 6-bit values read make a
\* byte; the bits left over in the last character are dropped.
urlsafe_b64decode(text) ==
    LET scan == a2b_scan(text, 1, Len(text),
                         [quad |-> 0, pads |-> 0, acc |-> <<>>, done |-> FALSE])
        Pow2(n) == IF n = 0 THEN 1 ELSE IF n = 2 THEN 4 ELSE 16
    IN  IF ~scan.done /\ scan.quad # 0 THEN Err("binascii.Error")
        ELSE Ok([j \in 1..((Len(scan.acc) * 6) \div 8) |->
                    LET si == (8 * (j - 1)) \div 6 + 1
                        off == (8 * (j - 1)) % 6
                    IN  ((scan.acc[si] * 64 + scan.acc[si + 1]) \div Pow2(4 - off)) % 256])

-----------------------------------------------------------------------------
(* JSON.  A JSON value is a record [t, v]: t its Python type, v its         *)
(* content (the code points of a str, the number of an int, the items of a  *)
(* list, the <<key, value>> pairs of a dict in insertion order).            *)

JStr(text) == [t |-> "str", v |-> text]
JInt(n) == [t |-> "int", v |-> n]
\* a float is kept as the text of its literal
JFloat(text) == [t |-> "float", v |-> text]
JBool(b) == [t |-> "bool", v |-> b]
JNull == [t |-> "NoneType", v |-> <<>>]
JList(items) == [t |-> "list", v |-> items]
JDict(pairs) == [t |-> "dict", v |-> pairs]

\* str(n) for n >= 0
RECURSIVE NatText(_)
NatText(n) ==
    IF n < 10 THEN <<48 + n>> ELSE Append(NatText(n \div 10), 48 + (n % 10))

\* The body of a JSON string with ensure_ascii=False: only the quote and the
\* backslash are escaped (the control characters are not modelled).
RECURSIVE JsonEscape(_)
JsonEscape(text) ==
    IF text = <<>> THEN <<>>
    ELSE (IF text[1] = 34 \/ text[1] = 92 THEN <<92, text[1]>> ELSE <<text[1]>>)
         \o JsonEscape(Tail(text))

\* json.dumps(x, ensure_ascii=False): items separated by ", ", keys by ": ".
RECURSIVE JsonDumps(_)
JsonDumps(x) ==
    LET RECURSIVE Join(_, _)
        Join(items, i) ==
            IF i > Len(items) THEN <<>>
            ELSE (IF i > 1 THEN <<44, 32>> ELSE <<>>)
                 \o (IF x.t = "dict"
                     THEN <<34>> \o JsonEscape(items[i][1]) \o <<34, 58, 32>>
                          \o JsonDumps(items[i][2])
                     ELSE JsonDumps(items[i]))
                 \o Join(items, i + 1)
    IN  CASE x.t = "str" -> <<34>> \o JsonEscape(x.v) \o <<34>>
          [] x.t = "int" -> IF x.v < 0 THEN <<45>> \o NatText(0 - x.v) ELSE NatText(x.v)
          [] x.t = "float" -> x.v
          [] x.t = "bool" -> IF x.v THEN <<116, 114, 117, 101>> ELSE <<102, 97, 108, 115, 101>>
          [] x.t = "NoneType" -> <<110, 117, 108, 108>>
          [] x.t = "list" -> <<91>> \o Join(x.v, 1) \o <<93>>
          [] x.t = "dict" -> <<123>> \o Join(x.v, 1) \o <<125>>

\* json.loads reads a value at position i: [ok, v, next], next the position
\* after the value.  Strings know the escapes \" and \\; the literals NaN and
\* Infinity are not read.
IsDigit(c) == c >= 48 /\ c <= 57
ParseFail == [ok |-> FALSE, v |-> "JSONDecodeError", next |-> 0]
Parsed(v, next) == [ok |-> TRUE, v |-> v, next |-> next]

RECURSIVE SkipSpace(_, _)
SkipSpace(text, i) ==
    IF i <= Len(text) /\ text[i] \in {32, 9, 10, 13} THEN SkipSpace(text, i + 1) ELSE i

RECURSIVE ParseString(_, _, _)
ParseString(text, i, acc) ==
    IF i > Len(text) THEN ParseFail
    ELSE IF text[i] = 34 THEN Parsed(acc, i + 1)
    ELSE IF text[i] = 92 THEN
        IF i < Len(text) /\ text[i + 1] \in {34, 92}
        THEN ParseString(text, i + 2, Append(acc, text[i + 1]))
        ELSE ParseFail
    ELSE IF text[i] < 32 THEN ParseFail
    ELSE ParseString(text, i + 1, Append(acc, text[i]))

RECURSIVE ParseDigits(_, _, _)
ParseDigits(text, i, n) ==
    IF i <= Len(text) /\ IsDigit(text[i])
    THEN ParseDigits(text, i + 1, 10 * n + (text[i] - 48))
    ELSE Parsed(n, i)

ParseNumber(text, i) ==
    LET neg == text[i] = 45
        j == IF neg THEN i + 1 ELSE i
        DigitAt(k) == k <= Len(text) /\ IsDigit(text[k])
    IN  IF ~DigitAt(j) THEN ParseFail
        ELSE IF text[j] = 48 /\ DigitAt(j + 1) THEN ParseFail
        ELSE LET d == ParseDigits(text, j, 0)
                 \* a fraction: "." and digits
                 f == IF d.next <= Len(text) /\ text[d.next] = 46 /\ DigitAt(d.next + 1)
                      THEN ParseDigits(text, d.next + 1, 0).next ELSE d.next
                 \* an exponent: "e" or "E", a sign or none, and digits
                 s == IF f < Len(text) /\ text[f] \in {69, 101} /\ text[f + 1] \in {43, 45}
                      THEN f + 2 ELSE f + 1
                 e == IF f <= Len(text) /\ text[f] \in {69, 101} /\ DigitAt(s)
                      THEN ParseDigits(text, s, 0).next ELSE f
             IN  IF e = d.next
                 THEN Parsed(JInt(IF neg THEN 0 - d.v ELSE d.v), d.next)
                 ELSE Parsed(JFloat(SubSeq(text, i, e - 1)), e)

StartsWith(text, i, word) ==
    /\ i + Len(word) - 1 <= Len(text)
    /\ SubSeq(text, i, i + Len(word) - 1) = word

RECURSIVE ParseValue(_, _)
ParseValue(text, i0) ==
    LET i == SkipSpace(text, i0)
        RECURSIVE ParseItems(_, _)
        \* the items of a list after "[" or after a ","
        ParseItems(k, acc) ==
            LET item == ParseValue(text, k)
                n == IF item.ok THEN SkipSpace(text, item.next) ELSE 0
            IN  IF ~item.ok \/ n > Len(text) THEN ParseFail
                ELSE IF text[n] = 93 THEN Parsed(JList(Append(acc, item.v)), n + 1)
                ELSE IF text[n] = 44 THEN ParseItems(n + 1, Append(acc, item.v))
                ELSE ParseFail
        RECURSIVE ParsePairs(_, _)
        \* the pairs of a dict after "{" or after a ","
        ParsePairs(k0, acc) ==
            LET k == SkipSpace(text, k0)
                key == IF k <= Len(text) /\ text[k] = 34
                       THEN ParseString(text, k + 1, <<>>) ELSE ParseFail
                c == IF key.ok THEN SkipSpace(text, key.next) ELSE 0
                val == IF key.ok /\ c <= Len(text) /\ text[c] = 58
                       THEN ParseValue(text, c + 1) ELSE ParseFail
                n == IF val.ok THEN SkipSpace(text, val.next) ELSE 0
                \* a key read twice keeps its place and takes the later value
                put == IF val.ok
                       THEN IF \E m \in 1..Len(acc) : acc[m][1] = key.v
                            THEN [m \in 1..Len(acc) |->
                                     IF acc[m][1] = key.v THEN <<key.v, val.v>> ELSE acc[m]]
                            ELSE Append(acc, <<key.v, val.v>>)
                       ELSE acc
            IN  IF ~val.ok \/ n > Len(text) THEN ParseFail
                ELSE IF text[n] = 125 THEN Parsed(JDict(put), n + 1)
                ELSE IF text[n] = 44 THEN ParsePairs(n + 1, put)
                ELSE ParseFail
    IN  IF i > Len(text) THEN ParseFail
        ELSE IF text[i] = 34 THEN
            LET s == ParseString(text, i + 1, <<>>)
            IN  IF s.ok THEN Parsed(JStr(s.v), s.next) ELSE ParseFail
        ELSE IF text[i] = 45 \/ IsDigit(text[i]) THEN ParseNumber(text, i)
        ELSE IF StartsWith(text, i, <<116, 114, 117, 101>>) THEN Parsed(JBool(TRUE), i + 4)
        ELSE IF StartsWith(text, i, <<102, 97, 108, 115, 101>>) THEN Parsed(JBool(FALSE), i + 5)
        ELSE IF StartsWith(text, i, <<110, 117, 108, 108>>) THEN Parsed(JNull, i + 4)
        ELSE IF text[i] = 91 THEN
            LET n == SkipSpace(text, i + 1)
            IN  IF n <= Len(text) /\ text[n] = 93 THEN Parsed(JList(<<>>), n + 1)
                ELSE ParseItems(i + 1, <<>>)
        ELSE IF text[i] = 123 THEN
            LET n == SkipSpace(text, i + 1)
            IN  IF n <= Len(text) /\ text[n] = 125 THEN Parsed(JDict(<<>>), n + 1)
                ELSE ParsePairs(i + 1, <<>>)
        ELSE ParseFail

\* json.loads(text): one value and nothing but whitespace after it.
JsonLoads(text) ==
    LET r == ParseValue(text, 1)
    IN  IF r.ok /\ SkipSpace(text, r.next) = Len(text) + 1 THEN Ok(r.v)
        ELSE Err("JSONDecodeError")

-----------------------------------------------------------------------------
(* Key derivation and Fernet, as _fernet_from_pbkdf2 and                    *)
(* SimpleEncryptionManager use them.  The token format, its base64 text and *)
(* the order of the checks are those of cryptography.fernet; the three      *)
(* primitives are arithmetic stand-ins that keep what the code relies on:   *)
(* the derived key is a function of master key and salt that changes with   *)
(* either, the cipher is inverted by its key and IV, and the MAC of a       *)
(* message changes when one of its bytes or the signing key changes.        *)

\* os.urandom(16) and os.urandom(32): the n-th value the operating system
\* hands out.  The source does not repeat itself within a run.
os_urandom16(n) == [i \in 1..16 |-> (n * 37 + i * 11) % 256]
os_urandom32(n) == [i \in 1..32 |-> (n * 29 + i * 13) % 256]

WeightedSum(s) == SumSeq([i \in 1..Len(s) |-> i * s[i]])

\* PBKDF2HMAC(SHA256, length=32, salt, iterations=100_000).derive(master_key)
PBKDF2HMAC_derive(master_key, salt) ==
    LET k == (WeightedSum(master_key) + 7 * SumSeq(salt)) % 256
    IN  [i \in 1..32 |-> (k + i) % 256]

\* Fernet(fernet_key): the key is base64 text of 32 bytes, the first 16 the
\* signing key, the last 16 the encryption key.
Fernet(fernet_key) ==
    LET key == urlsafe_b64decode(fernet_key).v
    IN  [signing_key |-> SubSeq(key, 1, 16), encryption_key |-> SubSeq(key, 17, 32)]

_fernet_from_pbkdf2(master_key, salt) ==
    LET key == PBKDF2HMAC_derive(master_key, salt)
        fernet_key == urlsafe_b64encode(key)
    IN  Fernet(fernet_key)

\* HMAC-SHA256(signing_key, msg), 32 bytes
HMAC(signing_key, msg) ==
    LET h == SumSeq(msg) + 13 * Len(msg) + signing_key[1]
    IN  [j \in 1..32 |-> (h + j) % 256]

\* PKCS7 padding to blocks of 16 bytes
PKCS7_pad(data) ==
    LET n == 16 - (Len(data) % 16) IN data \o [i \in 1..n |-> n]

PKCS7_unpad(padded) ==
    LET n == IF padded = <<>> THEN 0 ELSE padded[Len(padded)]
    IN  IF n < 1 \/ n > 16 \/ n > Len(padded)
           \/ \E i \in (Len(padded) - n + 1)..Len(padded) : padded[i] # n
        THEN Err("ValueError")
        ELSE Ok(SubSeq(padded, 1, Len(padded) - n))

\* AES-128-CBC
AES_CBC_encrypt(key, iv, padded) ==
    [i \in 1..Len(padded) |->
        (padded[i] + key[((i - 1) % 16) + 1] + iv[((i - 1) % 16) + 1]) % 256]

AES_CBC_decrypt(key, iv, ciphertext) ==
    IF Len(ciphertext) % 16 # 0 THEN Err("ValueError")
    ELSE Ok([i \in 1..Len(ciphertext) |->
                (ciphertext[i] + 512 - key[((i - 1) % 16) + 1]
                               - iv[((i - 1) % 16) + 1]) % 256])

\* struct.pack(">Q", current_time), for a time below 2^32
PackTime(t) ==
    <<0, 0, 0, 0, (t \div 16777216) % 256, (t \div 65536) % 256, (t \div 256) % 256, t % 256>>

\* Fernet.encrypt(data): version 0x80, time, IV, ciphertext, HMAC of all
\* that, as URL-safe base64 text.
Fernet_encrypt(f, data, current_time, iv) ==
    LET ciphertext == AES_CBC_encrypt(f.encryption_key, iv, PKCS7_pad(data))
        basic_parts == <<128>> \o PackTime(current_time) \o iv \o ciphertext
    IN  urlsafe_b64encode(basic_parts \o HMAC(f.signing_key, basic_parts))

\* Fernet.decrypt(token) without ttl: InvalidToken on text that is no
\* base64, on a wrong version byte, on a short token, on a wrong HMAC and on
\* a ciphertext that does not decrypt or unpad.
Fernet_decrypt(f, token) ==
    LET decoded == urlsafe_b64decode(token)
        data == decoded.v
        iv == Slice(data, 9, 25)
        ciphertext == Slice(data, 25, -32)
        padded == AES_CBC_decrypt(f.encryption_key, iv, ciphertext)
        unpadded == PKCS7_unpad(padded.v)
    IN  IF ~decoded.ok THEN Err("InvalidToken")
        ELSE IF data = <<>> \/ data[1] # 128 THEN Err("InvalidToken")
        ELSE IF Len(data) < 9 THEN Err("InvalidToken")
        ELSE IF HMAC(f.signing_key, Slice(data, 0, -32)) # Last(data, 32)
             THEN Err("InvalidToken")
        ELSE IF ~padded.ok THEN Err("InvalidToken")
        ELSE IF ~unpadded.ok THEN Err("InvalidToken")
        ELSE unpadded

-----------------------------------------------------------------------------
(* SimpleEncryptionManager *)

\* __init__(master_key): a key that is empty or shorter than 32 characters
\* is filled up to 64 characters with the hex of os.urandom(32).
SimpleEncryptionManager_as_configured(master_key, urandom32) ==
    [_master_key |-> utf8_encode(master_key)]

SimpleEncryptionManager_same_fallback(master_key, urandom32) ==
    [_master_key |->
        utf8_encode(IF master_key = <<>> \/ Len(master_key) < 32
                    THEN SubSeq(master_key \o bytes_hex(os_urandom32(1)), 1, 64)
                    ELSE master_key)]

SimpleEncryptionManager(master_key, urandom32) ==
    [_master_key |->
        utf8_encode(IF Len(master_key) < 32
                    THEN SubSeq(master_key \o bytes_hex(urandom32), 1, 64)
                    ELSE master_key)]

\* The print of __init__: the warning, when it takes the fallback.
InvalidKeyWarning == "WARNING: ENCRYPTION_KEY invalid - generating secure fallback key"

SimpleEncryptionManager_print(master_key) ==
    IF master_key = <<>> \/ Len(master_key) < 32 THEN <<InvalidKeyWarning>> ELSE <<>>

\* encrypt(data), with the salt os.urandom hands to encrypt and the time and
\* IV Fernet.encrypt takes.
encrypt_dumps_all(self, data, salt, current_time, iv) ==
    LET text == JsonDumps(data)
        f == _fernet_from_pbkdf2(self._master_key, salt)
        token == Fernet_encrypt(f, utf8_encode(text), current_time, iv)
    IN  bytes_hex(salt \o token)

encrypt_salt_of_key(self, data, salt, current_time, iv) ==
    LET text == IF data.t # "str" THEN JsonDumps(data) ELSE data.v
        fixed == Slice(self._master_key, 0, 16)
        f == _fernet_from_pbkdf2(self._master_key, fixed)
        token == Fernet_encrypt(f, utf8_encode(text), current_time, iv)
    IN  bytes_hex(fixed \o token)

encrypt(self, data, salt, current_time, iv) ==
    LET text == IF data.t # "str" THEN JsonDumps(data) ELSE data.v
        f == _fernet_from_pbkdf2(self._master_key, salt)
        token == Fernet_encrypt(f, utf8_encode(text), current_time, iv)
    IN  bytes_hex(salt \o token)

\* decrypt(encrypted_hex): the text, or the exception raised
decrypt(self, encrypted_hex) ==
    LET raw == bytes_fromhex(encrypted_hex)
        salt == Slice(raw.v, 0, 16)
        token == Slice(raw.v, 16, Len(raw.v))
        f == _fernet_from_pbkdf2(self._master_key, salt)
        decrypted == Fernet_decrypt(f, token)
    IN  IF ~raw.ok THEN raw
        ELSE IF ~decrypted.ok THEN decrypted
        ELSE utf8_decode(decrypted.v)

-----------------------------------------------------------------------------
(* The /api/dsgvo/encrypt and /api/dsgvo/decrypt routes.  One client sends  *)
(* a request and reads the response before it sends the next one.           *)

\* encrypt calls in one run of SpecCrypto
MaxEncrypts == 2

\* values of the data field a client can send: "a", "ä", "123", 123 and
\* {"k": "ä"}
Payloads ==
    {JStr(<<97>>), JStr(<<228>>), JStr(<<49, 50, 51>>), JInt(123),
     JDict(<< <<<<107>>, JStr(<<228>>)>> >>)}

\* values of ENCRYPTION_KEY: not set, "short", and a key of 32 characters
ConfiguredKeys == {<<>>, <<115, 104, 111, 114, 116>>, [i \in 1..32 |-> 64 + i]}

\* A manager of another deployment, with another key of 32 characters.
OtherManager == SimpleEncryptionManager([i \in 1..32 |-> 96 + i], os_urandom32(1))

\* raw with the byte at position pos changed by delta
ChangeByte(encrypted_hex, pos, delta) ==
    LET raw == bytes_fromhex(encrypted_hex).v
    IN  bytes_hex([raw EXCEPT ![pos] = (@ + delta) % 256])

\* Positions of a blob of n bytes at which the client changes a byte: the
\* ends of the salt, the start and the inside of the token, and its last four
\* characters.
ChangedPositions(n) == {1, 16, 17, 60} \cup ((n - 3)..n)
ChangedBy == {1, 128}

\* What a client can send to /api/dsgvo/decrypt: a blob it got from
\* /api/dsgvo/encrypt, such a blob with one byte changed, a blob that the
\* manager of another deployment made of the same data, and text that is no
\* blob at all.
BlobRequests ==
    {[kind |-> "blob", of |-> i, pos |-> 0, delta |-> 0,
      encrypted |-> blobs[i].encrypted] : i \in 1..Len(blobs)}

DecryptRequests ==
    BlobRequests
    \cup
    UNION {{[kind |-> "changed", of |-> i, pos |-> pos, delta |-> delta,
             encrypted |-> ChangeByte(blobs[i].encrypted, pos, delta)] :
               pos \in ChangedPositions(Len(blobs[i].encrypted) \div 2),
               delta \in ChangedBy} : i \in 1..Len(blobs)}
    \cup
    {[kind |-> "other_key", of |-> i, pos |-> 0, delta |-> 0,
      encrypted |-> encrypt(OtherManager, blobs[i].data, os_urandom16(1), clock,
                            os_urandom16(2))] : i \in 1..Len(blobs)}
    \cup
    {[kind |-> "text", of |-> 0, pos |-> 0, delta |-> 0, encrypted |-> text] :
        text \in {<<>>, <<97>>, <<122, 122>>}}

\* POST /api/dsgvo/encrypt.  salt and run are history: the value os.urandom
\* handed to this call of encrypt, and the process run that served it.
api_dsgvo_encrypt(data) ==
    /\ resp = NoResp
    /\ Len(blobs) < MaxEncrypts
    /\ LET salt == os_urandom16(urandom_calls + 1)
           iv == os_urandom16(urandom_calls + 2)
           ciphertext == encrypt(encryption, data, salt, clock, iv)
       IN  /\ resp' = [handler |-> "api_dsgvo_encrypt", status |-> 200,
                       encrypted |-> ciphertext]
           /\ blobs' = Append(blobs, [data |-> data, salt |-> salt,
                                      encrypted |-> ciphertext, run |-> run])
    /\ urandom_calls' = urandom_calls + 2
    /\ UNCHANGED <<encryption, ENCRYPTION_MASTER_KEY, run, stdout, audit_logs,
                   db_lock, clock, pc, call, done, nreq, smartsheet_on, pdfVars>>

\* POST /api/dsgvo/decrypt: the text as JSON if it is JSON, else the text;
\* status 400 for every exception.  request and plaintext are history: what
\* was sent and what encryption.decrypt returned or raised.
api_dsgvo_decrypt(request) ==
    /\ resp = NoResp
    /\ LET plaintext == decrypt(encryption, request.encrypted)
           loaded == JsonLoads(plaintext.v)
           sent == [kind |-> request.kind, of |-> request.of,
                    pos |-> request.pos, delta |-> request.delta]
       IN  resp' = IF ~plaintext.ok
                   THEN [handler |-> "api_dsgvo_decrypt", status |-> 400,
                         data |-> None, request |-> sent, plaintext |-> plaintext]
                   ELSE [handler |-> "api_dsgvo_decrypt", status |-> 200,
                         data |-> IF loaded.ok THEN loaded.v ELSE JStr(plaintext.v),
                         request |-> sent, plaintext |-> plaintext]
    /\ UNCHANGED <<cryptoVars, audit_logs, db_lock, clock, pc, call, done, nreq,
                   smartsheet_on, pdfVars>>

\* process runs in one run of SpecRestart
MaxRuns == 2

\* values of ENCRYPTION_KEY around the minimum length: not set, 5, 31, 32
\* and 70 characters
StartupKeys ==
    {<<>>, <<115, 104, 111, 114, 116>>, [i \in 1..31 |-> 64 + i],
     [i \in 1..32 |-> 64 + i], [i \in 1..70 |-> 48 + i]}

\* what the client of SpecRestart sends to /api/dsgvo/encrypt: "a" and
\* {"k": "ä"}
RestartPayloads == {JStr(<<97>>), JDict(<< <<<<107>>, JStr(<<228>>)>> >>)}

\* The process is stopped and started again with the same environment: the
\* module is loaded anew (encryption = SimpleEncryptionManager(...)), calls in
\* flight end with their connections, the database file and what the clients
\* hold stay.
Restart ==
    /\ run < MaxRuns
    /\ run' = run + 1
    /\ encryption' = SimpleEncryptionManager(ENCRYPTION_MASTER_KEY, os_urandom32(run'))
    /\ stdout' = SimpleEncryptionManager_print(ENCRYPTION_MASTER_KEY)
    /\ pc' = [p \in Workers |-> "idle"]
    /\ call' = [p \in Workers |-> NoCall]
    /\ db_lock' = 0
    /\ resp' = NoResp
    /\ UNCHANGED <<ENCRYPTION_MASTER_KEY, urandom_calls, blobs, audit_logs, clock,
                   done, nreq, smartsheet_on, pdfVars>>

\* The client has read the response.
ClientReads ==
    /\ resp.handler \in {"api_dsgvo_encrypt", "api_dsgvo_decrypt"}
    /\ resp' = NoResp
    /\ UNCHANGED <<cryptoVars, audit_logs, db_lock, clock, pc, call, done, nreq,
                   smartsheet_on, pdfVars>>

-----------------------------------------------------------------------------
(* The rule-based document analysis.  A text is the sequence of its code     *)
(* points (below U+0100); a severity is written in hundredths (0.8 is 80).   *)

\* str.lower(), for code points below U+0100: A-Z and the capital letters
\* U+00C0..U+00DE but the multiplication sign.
LowerChar(c) ==
    IF (c >= 65 /\ c <= 90) \/ (c >= 192 /\ c <= 222 /\ c # 215) THEN c + 32 ELSE c

lower(text) == [i \in 1..Len(text) |-> LowerChar(text[i])]

\* k in text
Contains(k, text) ==
    \E i \in 0..(Len(text) - Len(k)) : SubSeq(text, i + 1, i + Len(k)) = k

\* The keyword lists of the five checks, in the order of the code:
\* chemikalie, lösemittel, säure, gefahrstoff, trgs
\* maschine, presse, fräsmaschine, säge, bohrmaschine
\* sturz, hinfallen, absturz, leiter, gerüst
\* lärm, gehörschutz, schallpegel
\* stress, überlastung, psychische, burnout
KeywordLists ==
    <<{<<99, 104, 101, 109, 105, 107, 97, 108, 105, 101>>,
       <<108, 246, 115, 101, 109, 105, 116, 116, 101, 108>>,
       <<115, 228, 117, 114, 101>>,
       <<103, 101, 102, 97, 104, 114, 115, 116, 111, 102, 102>>,
       <<116, 114, 103, 115>>},
      {<<109, 97, 115, 99, 104, 105, 110, 101>>,
       <<112, 114, 101, 115, 115, 101>>,
       <<102, 114, 228, 115, 109, 97, 115, 99, 104, 105, 110, 101>>,
       <<115, 228, 103, 101>>,
       <<98, 111, 104, 114, 109, 97, 115, 99, 104, 105, 110, 101>>},
      {<<115, 116, 117, 114, 122>>,
       <<104, 105, 110, 102, 97, 108, 108, 101, 110>>,
       <<97, 98, 115, 116, 117, 114, 122>>,
       <<108, 101, 105, 116, 101, 114>>,
       <<103, 101, 114, 252, 115, 116>>},
      {<<108, 228, 114, 109>>,
       <<103, 101, 104, 246, 114, 115, 99, 104, 117, 116, 122>>,
       <<115, 99, 104, 97, 108, 108, 112, 101, 103, 101, 108>>},
      {<<115, 116, 114, 101, 115, 115>>,
       <<252, 98, 101, 114, 108, 97, 115, 116, 117, 110, 103>>,
       <<112, 115, 121, 99, 104, 105, 115, 99, 104, 101>>,
       <<98, 117, 114, 110, 111, 117, 116>>}>>

\* The hazard each check adds: add_hazard(keyword, category, severity,
\* recommendation); the recommendation is given by its first words.
Hazards ==
    <<[keyword |-> "Chemikalien", category |-> "chemisch", severity |-> 80,
       recommendation |-> "Gefahrstoffunterweisung nach GefStoffV / TRGS"],
      [keyword |-> "Maschinen", category |-> "mechanisch", severity |-> 70,
       recommendation |-> "Betriebsanweisungen fuer Maschinen"],
      [keyword |-> "Sturz / Absturz", category |-> "physisch", severity |-> 75,
       recommendation |-> "Unterweisung zu Stolper- und Absturzgefahren"],
      [keyword |-> "Lärm", category |-> "physisch", severity |-> 60,
       recommendation |-> "Gehoerschutzkonzept pruefen"],
      [keyword |-> "Psychische Belastung", category |-> "psychisch", severity |-> 50,
       recommendation |-> "Massnahmen zur Reduktion psychischer Belastungen"]>>

\* The hazard added when the list is still empty.
GenericHazard ==
    [keyword |-> "allgemein", category |-> "unspezifisch", severity |-> 30,
     recommendation |-> "Dokument pruefen"]

\* max(values, default=0.0)
RECURSIVE MaxOf(_)
MaxOf(values) ==
    IF values = <<>> THEN 0
    ELSE LET rest == MaxOf(Tail(values))
         IN  IF values[1] >= rest THEN values[1] ELSE rest

\* The five checks in turn, from check g on: each appends its hazard when
\* one of its keywords is in the text.
RECURSIVE RunChecks(_, _, _)
RunChecks(text, g, hazards) ==
    IF g > Len(KeywordLists) THEN hazards
    ELSE RunChecks(text, g + 1,
                   IF \E k \in KeywordLists[g] : Contains(k, text)
                   THEN Append(hazards, Hazards[g]) ELSE hazards)

\* dict.get(key): None for a key the dict does not have
Get(dict, key) == IF key \in DOMAIN dict THEN dict[key] ELSE None

\* The body of analyze_pdf_safety after "lowered = ..." and "hazards = ...".
Analysis(lowered, hazards0, metadata) ==
    LET found == RunChecks(lowered, 1, hazards0)
        hazards == IF found = <<>> THEN Append(found, GenericHazard) ELSE found
    IN  [hazards_detected |-> hazards,
         max_severity |-> MaxOf([i \in 1..Len(hazards) |-> hazards[i].severity]),
         suggested_training_topics |-> [i \in 1..Len(hazards) |-> hazards[i].category],
         metadata_title |-> Get(metadata, "title"),
         metadata_author |-> Get(metadata, "author")]

\* The hazards list of the analysis before: what a list kept between the
\* calls would hold.
analyze_pdf_safety_list_kept(text, metadata) ==
    Analysis(lower(text),
             IF analyses = <<>> THEN <<>>
             ELSE analyses[Len(analyses)].analysis.hazards_detected,
             metadata)

analyze_pdf_safety_case_sensitive(text, metadata) == Analysis(text, <<>>, metadata)

analyze_pdf_safety(text, metadata) == Analysis(lower(text), <<>>, metadata)

\* analyses in one run of SpecPdf
MaxAnalyses == 3

\* Texts of uploaded documents:
\* ""
\* "Alles ok"
\* "SÄURE"
\* "Stress an der Presse"
\* "Lärm Leiter Säge TRGS Burnout"
\* "Gerüst"
\* "Sturm"
\* "Leiter an der Maschine"
Texts ==
    {<<>>,
     <<65, 108, 108, 101, 115, 32, 111, 107>>,
     <<83, 196, 85, 82, 69>>,
     <<83, 116, 114, 101, 115, 115, 32, 97, 110, 32, 100, 101, 114, 32, 80, 114, 101, 115, 115, 101>>,
     <<76, 228, 114, 109, 32, 76, 101, 105, 116, 101, 114, 32, 83, 228, 103, 101, 32,
       84, 82, 71, 83, 32, 66, 117, 114, 110, 111, 117, 116>>,
     <<71, 101, 114, 252, 115, 116>>,
     <<83, 116, 117, 114, 109>>,
     <<76, 101, 105, 116, 101, 114, 32, 97, 110, 32, 100, 101, 114, 32,
       77, 97, 115, 99, 104, 105, 110, 101>>}

\* doc.metadata or {}: a dict without title and author, and one with both
Metadatas ==
    {[format |-> "PDF 1.7"], [format |-> "PDF 1.7", title |-> "GBU", author |-> "A"]}

\* POST /api/pdf/analyze with a file fitz can open: text and metadata are
\* what extract_pdf_text and extract_pdf_metadata read from it.  analyses is
\* history: the calls of analyze_pdf_safety and what they returned.
api_pdf_analyze(text, metadata) ==
    /\ Len(analyses) < MaxAnalyses
    /\ LET analysis == analyze_pdf_safety(text, metadata)
       IN  /\ analyses' = Append(analyses, [text |-> text, metadata |-> metadata,
                                            analysis |-> analysis])
           /\ resp' = [handler |-> "api_pdf_analyze", status |-> 200,
                       analysis |-> analysis]
    /\ UNCHANGED <<auditExceptResp, cryptoVars>>

\* POST /api/pdf/analyze with a file fitz cannot open: extract_pdf_metadata
\* raises HTTPException(500) and nothing is analysed.
api_pdf_analyze_unreadable ==
    /\ resp' = [handler |-> "api_pdf_analyze", status |-> 500]
    /\ UNCHANGED <<analyses, auditExceptResp, cryptoVars>>

\* AuditLogger.__init__ / _init_db on a new database file: an empty table.
InitAudit ==
    /\ audit_logs = {}
    /\ db_lock = 0
    /\ clock = ClockStart
    /\ pc = [p \in Workers |-> "idle"]
    /\ call = [p \in Workers |-> NoCall]
    /\ resp = NoResp
    /\ done = {}
    /\ nreq = 0
    /\ smartsheet_on = FALSE

vars == <<auditVars, cryptoVars, pdfVars>>

\* encryption = SimpleEncryptionManager(ENCRYPTION_MASTER_KEY) with
\* ENCRYPTION_KEY not set.
InitEncryption ==
    /\ ENCRYPTION_MASTER_KEY = <<>>
    /\ run = 1
    /\ encryption = SimpleEncryptionManager(ENCRYPTION_MASTER_KEY, os_urandom32(run))
    /\ stdout = SimpleEncryptionManager_print(ENCRYPTION_MASTER_KEY)
    /\ urandom_calls = 0
    /\ blobs = <<>>
    /\ analyses = <<>>

\* The process as it starts with the default environment.
Init == InitAudit /\ InitEncryption

\* The audit log under concurrent requests: the DSGVO routes that write to
\* it, the two routes that read it, and the wall clock.
Next ==
    \/ \E p \in Workers : api_dsgvo_log_access(p) /\ UNCHANGED otherVars
    \/ \E p \in Workers : api_dsgvo_log_modification(p) /\ UNCHANGED otherVars
    \/ \E p \in Workers : api_dsgvo_audit_trail(p) /\ UNCHANGED otherVars
    \/ \E p \in Workers : admin_audit_logs(p) /\ UNCHANGED otherVars
    \/ \E p \in Workers : log_execute(p) /\ UNCHANGED otherVars
    \/ \E p \in Workers : log_execute_locked(p) /\ UNCHANGED otherVars
    \/ \E p \in Workers : log_execute_duplicate(p) /\ UNCHANGED otherVars
    \/ \E p \in Workers : log_commit(p) /\ UNCHANGED otherVars
    \/ \E p \in Workers : log_commit_fail(p) /\ UNCHANGED otherVars
    \/ Tick /\ UNCHANGED otherVars
    \/ ClockStepBack /\ UNCHANGED otherVars

Spec == Init /\ [][Next]_vars

\* requests started in one run of SpecRoutes
MaxRouteRequests == 2

\* The six audited routes under concurrent requests.
NextRoutes ==
    \/ \E p \in Workers :
          nreq < MaxRouteRequests /\ api_smartsheet_create_row(p) /\ UNCHANGED otherVars
    \/ \E p \in Workers :
          nreq < MaxRouteRequests /\ api_smartsheet_update_row(p) /\ UNCHANGED otherVars
    \/ \E p \in Workers :
          nreq < MaxRouteRequests /\ api_ai_optimize(p) /\ UNCHANGED otherVars
    \/ \E p \in Workers :
          nreq < MaxRouteRequests /\ api_compliance_check(p) /\ UNCHANGED otherVars
    \/ \E p \in Workers :
          nreq < MaxRouteRequests /\ api_dsgvo_log_access(p) /\ UNCHANGED otherVars
    \/ \E p \in Workers :
          nreq < MaxRouteRequests /\ api_dsgvo_log_modification(p) /\ UNCHANGED otherVars
    \/ \E p \in Workers : log_execute(p) /\ UNCHANGED otherVars
    \/ \E p \in Workers : log_execute_locked(p) /\ UNCHANGED otherVars
    \/ \E p \in Workers : log_execute_duplicate(p) /\ UNCHANGED otherVars
    \/ \E p \in Workers : log_commit(p) /\ UNCHANGED otherVars
    \/ \E p \in Workers : log_commit_fail(p) /\ UNCHANGED otherVars

\* SMARTSHEET_API_TOKEN and SMARTSHEET_SHEET_ID are set in the environment, or not.
InitRoutes ==
    /\ audit_logs = {}
    /\ db_lock = 0
    /\ clock = ClockStart
    /\ pc = [p \in Workers |-> "idle"]
    /\ call = [p \in Workers |-> NoCall]
    /\ resp = NoResp
    /\ done = {}
    /\ nreq = 0
    /\ smartsheet_on \in BOOLEAN
    /\ InitEncryption

SpecRoutes == InitRoutes /\ [][NextRoutes]_vars

\* One SimpleEncryptionManager, built from any of the configured keys, and
\* the client of its two routes.
InitCrypto ==
    /\ InitAudit
    /\ ENCRYPTION_MASTER_KEY \in ConfiguredKeys
    /\ run = 1
    /\ encryption = SimpleEncryptionManager(ENCRYPTION_MASTER_KEY, os_urandom32(run))
    /\ stdout = SimpleEncryptionManager_print(ENCRYPTION_MASTER_KEY)
    /\ urandom_calls = 0
    /\ blobs = <<>>
    /\ analyses = <<>>

NextCrypto ==
    \/ \E data \in Payloads : api_dsgvo_encrypt(data)
    \/ \E request \in DecryptRequests : api_dsgvo_decrypt(request)
    \/ ClientReads

SpecCrypto == InitCrypto /\ [][NextCrypto]_vars

\* One deployment over several process runs: the process starts with any of
\* the keys, is restarted, and a client encrypts and sends back what it got.
InitRestart ==
    /\ InitAudit
    /\ ENCRYPTION_MASTER_KEY \in StartupKeys
    /\ run = 1
    /\ encryption = SimpleEncryptionManager(ENCRYPTION_MASTER_KEY, os_urandom32(run))
    /\ stdout = SimpleEncryptionManager_print(ENCRYPTION_MASTER_KEY)
    /\ urandom_calls = 0
    /\ blobs = <<>>
    /\ analyses = <<>>

NextRestart ==
    \/ Restart
    \/ \E data \in RestartPayloads : api_dsgvo_encrypt(data)
    \/ \E request \in BlobRequests : api_dsgvo_decrypt(request)
    \/ ClientReads

SpecRestart == InitRestart /\ [][NextRestart]_vars

\* The document analysis: uploads of readable and unreadable files.
NextPdf ==
    \/ \E text \in Texts, metadata \in Metadatas : api_pdf_analyze(text, metadata)
    \/ api_pdf_analyze_unreadable

SpecPdf == Init /\ [][NextPdf]_vars


-----------------------------------------------------------------------------
(* Properties of the audit log *)

ReadHandlers == {"api_dsgvo_audit_trail", "admin_audit_logs"}

Columns ==
    {"id", "timestamp", "user_id", "action", "object_type", "object_id", "details"}

\* The record a returned call must have left in the table.
ExpectedRowDict(d) ==
    [id |-> d.log_id, timestamp |-> d.timestamp, user_id |-> d.user_id,
     action |-> d.action, object_type |-> d.object_type,
     object_id |-> d.object_id, details |-> d.details]

Max(a, b) == IF a >= b THEN a ELSE b

\* C1: the audit log is append-only.  No step removes or changes a stored
\* record (every row of the table is still a row of it, with all its columns,
\* after the step), and a step that answers /api/dsgvo/audit-trail or
\* /admin/audit-logs leaves the table exactly as it was.
C1_AppendOnly ==
    [][ /\ audit_logs \subseteq audit_logs'
        /\ resp'.handler \in ReadHandlers => audit_logs' = audit_logs ]_vars

\* Two records are stored and a read has just been answered.
C1_Witness ==
    /\ Cardinality(audit_logs) = 2
    /\ resp.handler = "api_dsgvo_audit_trail"
    /\ Len(resp.trail) = 1

\* C2: get_trail(object_id) answers without an error, in non-decreasing order
\* of the instants the timestamps denote, with exactly the records appended
\* with that object_id by the calls that returned before it: none missing,
\* none of another object, none twice; an empty sequence when there is none.
C2_TrailOrderedAndExact ==
    resp.handler = "api_dsgvo_audit_trail" =>
        LET t == resp.trail IN
        /\ resp.status = 200
        /\ \A i \in 1..Len(t), j \in 1..Len(t) :
              i < j => TimeOf(t[i].timestamp) <= TimeOf(t[j].timestamp)
        /\ {t[i] : i \in 1..Len(t)} =
              {ExpectedRowDict(d) : d \in {e \in done : e.object_id = resp.object_id}}
        /\ \A i \in 1..Len(t), j \in 1..Len(t) : i # j => t[i] # t[j]

\* A trail of two records written in different seconds.
C2_Witness ==
    /\ resp.handler = "api_dsgvo_audit_trail"
    /\ Len(resp.trail) = 2
    /\ resp.trail[1].timestamp # resp.trail[2].timestamp

\* C3: for every limit, get_last answers with at most limit records (none for
\* a limit below 1), newest first, and they are the most recent records stored.
C3_RecentBoundedByLimit ==
    (resp.handler = "admin_audit_logs" /\ resp.status = 200) =>
        LET l == resp.logs
            shown == {l[i] : i \in 1..Len(l)}
        IN  /\ Len(l) <= Max(resp.limit, 0)
            /\ \A i \in 1..Len(l), j \in 1..Len(l) :
                  i < j => TimeOf(l[j].timestamp) <= TimeOf(l[i].timestamp)
            /\ shown \subseteq {RowDict(r) : r \in audit_logs}
            /\ \A r \in audit_logs :
                  RowDict(r) \notin shown =>
                      \A i \in 1..Len(l) :
                          TimeOf(r.timestamp) <= TimeOf(l[i].timestamp)

\* C4: AuditLogger.log is atomic.  A step changes the table only by adding
\* one row that has all seven columns and an id no stored row had, and it is
\* the step in which the call returns that id; a step in which a call raises
\* leaves the table unchanged and ends the call; a call whose INSERT has run
\* never runs it again.
C4_LogAtomic ==
    [][ /\ audit_logs' # audit_logs =>
              \E p \in Workers :
                 /\ pc[p] = "commit" /\ pc'[p] = "idle"
                 /\ resp'.status = 200
                 /\ \E row \in audit_logs' :
                       /\ audit_logs' = audit_logs \cup {row}
                       /\ row.id \notin Ids(audit_logs)
                       /\ DOMAIN row = Columns
                       /\ row.id = call[p].log_id
                       /\ \E d \in done' : d \notin done /\ d.log_id = row.id
        /\ resp'.status = 500 =>
              /\ audit_logs' = audit_logs
              /\ \E p \in Workers :
                    pc[p] \in {"execute", "commit"} /\ pc'[p] = "idle"
        /\ \A p \in Workers : pc[p] = "commit" => pc'[p] # "execute" ]_vars

\* A call has just raised while a record of an earlier call is stored.
C4_Witness ==
    /\ resp.status = 500
    /\ Cardinality(audit_logs) = 1

\* C5: under any interleaving, every call that returned has exactly one
\* stored record, and it holds the call's own id, timestamp, user_id, action,
\* object_type, object_id and details; no two records share an id and the
\* table holds nothing else.
C5_ConcurrentAppendsIntact ==
    /\ \A d \in done :
          /\ Cardinality({r \in audit_logs : r.id = d.log_id}) = 1
          /\ \E r \in audit_logs : RowDict(r) = ExpectedRowDict(d)
    /\ \A r1 \in audit_logs, r2 \in audit_logs : r1.id = r2.id => r1 = r2
    /\ Cardinality(audit_logs) = Cardinality(done)

\* Two calls that overlapped in time have both returned.
C5_Witness ==
    \E d1 \in done, d2 \in done :
        /\ d1.log_id # d2.log_id
        /\ d1.log_id \notin d2.prior
        /\ d2.log_id \notin d1.prior

\* C6: timestamps are non-decreasing in append order: if the call that wrote
\* r1 had returned when the call that wrote r2 started, r1's timestamp is not
\* later than r2's.
C6_TimestampsMonotonic ==
    \A d1 \in done, d2 \in done :
        d1.log_id \in d2.prior => TimeOf(d1.timestamp) <= TimeOf(d2.timestamp)

\* C7: every auditable request is recorded exactly once.  Each request of the
\* six audited handlers that succeeded has exactly one record, with the
\* handler's action and the request's object id, the table holds no other
\* record, and a create-row request answered 503 appends nothing (no
\* create-row record exists while Smartsheet is not configured).
C7_EachRequestRecordedOnce ==
    /\ \A d \in done :
          /\ d.handler \in Audited
          /\ Cardinality({r \in audit_logs : r.id = d.log_id}) = 1
          /\ \A r \in audit_logs :
                r.id = d.log_id =>
                    r.action = ActionOf(d.handler) /\ r.object_id = d.object_id
    /\ Cardinality(audit_logs) = Cardinality(done)
    /\ ~smartsheet_on =>
          /\ \A r \in audit_logs : r.action # "smartsheet_create_row"
          /\ \A p \in Workers : call[p].handler # "api_smartsheet_create_row"

\* A create-row request and an optimize request have both succeeded.
C7_Witness ==
    /\ \E d \in done : d.handler = "api_smartsheet_create_row"
    /\ \E d \in done : d.handler = "api_ai_optimize"

-----------------------------------------------------------------------------
(* Properties of the encryption *)

\* The number of characters of UTF-8 bytes: the bytes that start a character.
CharCount(b) == Cardinality({i \in 1..Len(b) : b[i] < 128 \/ b[i] >= 192})

\* C11: startup with a bad master secret.  When ENCRYPTION_KEY is not set or
\* shorter than 32 characters, the manager of every process run has a master
\* key of at least 32 characters that starts with the configured characters,
\* and the run has printed the warning; a configured key of 32 or more
\* characters is the master key, unchanged, and no warning is printed.
C11_MasterKeyLongEnough ==
    LET configured == utf8_encode(ENCRYPTION_MASTER_KEY) IN
    /\ CharCount(encryption._master_key) >= 32
    /\ Len(ENCRYPTION_MASTER_KEY) < 32 =>
          /\ InvalidKeyWarning \in {stdout[i] : i \in 1..Len(stdout)}
          /\ SubSeq(encryption._master_key, 1, Len(configured)) = configured
    /\ Len(ENCRYPTION_MASTER_KEY) >= 32 =>
          /\ encryption._master_key = configured
          /\ stdout = <<>>

\* A process restarted with a key of 31 characters has served an encrypt
\* request.
C11_Witness ==
    /\ Len(ENCRYPTION_MASTER_KEY) = 31
    /\ run = 2
    /\ \E i \in 1..Len(blobs) : blobs[i].run = 2

\* C13: a restart with the fallback key loses data.  When ENCRYPTION_KEY is
\* not set or shorter than 32 characters and the process has been restarted
\* with the same setting, decrypt of a blob that an earlier process run
\* encrypted raises, and /api/dsgvo/decrypt answers with status 400 and no
\* data; the plaintext is not returned.
C13_RestartLosesData ==
    (/\ resp.handler = "api_dsgvo_decrypt"
     /\ resp.request.kind = "blob"
     /\ blobs[resp.request.of].run # run
     /\ Len(ENCRYPTION_MASTER_KEY) < 32) =>
        /\ ~resp.plaintext.ok
        /\ resp.status = 400
        /\ resp.data = None

\* With a key of 5 characters, a blob of the first run has been sent to the
\* second run, which has encrypted a blob of its own.
C13_Witness ==
    /\ resp.handler = "api_dsgvo_decrypt"
    /\ resp.request.kind = "blob"
    /\ Len(ENCRYPTION_MASTER_KEY) = 5
    /\ run = 2
    /\ blobs[resp.request.of].run = 1
    /\ \E i \in 1..Len(blobs) : blobs[i].run = 2

\* The canonical text of a plaintext: the string itself, or the JSON
\* serialisation of a value that is no string.
CanonicalForm(p) == IF p.t = "str" THEN p.v ELSE JsonDumps(p)

\* C8: round trip.  For every plaintext, string or structured, that one
\* SimpleEncryptionManager encrypted, decrypt of the blob encrypt returned
\* returns the canonical text of the plaintext and raises nothing.
C8_RoundTrip ==
    (resp.handler = "api_dsgvo_decrypt" /\ resp.request.kind = "blob") =>
        resp.plaintext = Ok(CanonicalForm(blobs[resp.request.of].data))

\* The blob of a dict and the blob of a string have been made, and the blob
\* of the dict has just been decrypted.
C8_Witness ==
    /\ resp.handler = "api_dsgvo_decrypt"
    /\ resp.request.kind = "blob"
    /\ blobs[resp.request.of].data.t = "dict"
    /\ \E i \in 1..Len(blobs) : blobs[i].data.t = "str"
    /\ resp.plaintext.ok

\* C9: decryption is authenticated.  When the blob sent is a blob of encrypt
\* with one byte changed, in the salt or in the token, or a blob made under
\* another master key, decrypt raises and returns no plaintext, and
\* /api/dsgvo/decrypt answers with an error and no data.
C9_ChangedBlobRejected ==
    (/\ resp.handler = "api_dsgvo_decrypt"
     /\ resp.request.kind \in {"changed", "other_key"}) =>
        /\ ~resp.plaintext.ok
        /\ resp.status = 400
        /\ resp.data = None

\* C10: every encrypt call puts the 16-byte salt os.urandom handed to it in
\* front of the token, the salt of no two calls is the same, and no two
\* calls return the same blob, also when they encrypt the same plaintext
\* under the same master key.
C10_FreshSaltInFront ==
    /\ \A i \in 1..Len(blobs) :
          /\ Len(blobs[i].salt) = 16
          /\ Slice(bytes_fromhex(blobs[i].encrypted).v, 0, 16) = blobs[i].salt
    /\ \A i \in 1..Len(blobs), j \in 1..Len(blobs) :
          i # j =>
              /\ blobs[i].salt # blobs[j].salt
              /\ Slice(blobs[i].encrypted, 0, 32) # Slice(blobs[j].encrypted, 0, 32)
              /\ blobs[i].encrypted # blobs[j].encrypted

\* The same plaintext has been encrypted twice.
C10_Witness ==
    /\ Len(blobs) = 2
    /\ blobs[1].data = blobs[2].data

-----------------------------------------------------------------------------
(* Properties of the document analysis *)

Matching(text) ==
    {g \in 1..Len(KeywordLists) :
        \E k \in KeywordLists[g] : Contains(k, lower(text))}

\* C15: for every text the hazards list is not empty.  It is the generic
\* entry alone (keyword "allgemein", severity 0.3) when no keyword group
\* occurs in the lower-cased text and holds no generic entry otherwise;
\* otherwise it holds one entry per matching group, in the order chemical,
\* machine, fall, noise, psychological; max_severity is the largest severity
\* in the list.
C15_HazardsPerMatchingGroup ==
    \A n \in 1..Len(analyses) :
        LET h == analyses[n].analysis.hazards_detected
            M == Matching(analyses[n].text)
        IN  /\ Len(h) >= 1
            /\ (\E i \in 1..Len(h) : h[i].keyword = "allgemein") <=> M = {}
            /\ M = {} => h = <<GenericHazard>> /\ GenericHazard.severity = 30
            /\ M # {} =>
                  /\ Len(h) = Cardinality(M)
                  /\ \A i \in 1..Len(h) : \E g \in M : h[i] = Hazards[g]
                  /\ \A i \in 1..Len(h), j \in 1..Len(h) :
                        i < j => \E g1 \in M, g2 \in M :
                                    g1 < g2 /\ h[i] = Hazards[g1] /\ h[j] = Hazards[g2]
            /\ \E i \in 1..Len(h) : analyses[n].analysis.max_severity = h[i].severity
            /\ \A i \in 1..Len(h) : h[i].severity <= analyses[n].analysis.max_severity

\* A text in capitals with one group, a text with machine and fall (the
\* largest severity is not the first), and a text without a keyword have
\* been analysed.
C15_Witness ==
    /\ \E n \in 1..Len(analyses) :
          /\ Matching(analyses[n].text) = {1}
          /\ ~\E k \in KeywordLists[1] : Contains(k, analyses[n].text)
    /\ \E n \in 1..Len(analyses) : Matching(analyses[n].text) = {2, 3}
    /\ \E n \in 1..Len(analyses) : Matching(analyses[n].text) = {}

\* C14: round trip at the API boundary.  For every JSON value d, when the
\* blob /api/dsgvo/encrypt returned for d is sent to /api/dsgvo/decrypt of
\* the same manager, the answer has status 200 and its data is d, with the
\* type of d, also when d is a string that reads as JSON text.
C14_ApiRoundTrip ==
    (resp.handler = "api_dsgvo_decrypt" /\ resp.request.kind = "blob") =>
        /\ resp.status = 200
        /\ resp.data = blobs[resp.request.of].data

=============================================================================
